---- MODULE Spec2Model ----
(***************************************************************************)
(* State-machine model of voice_chat/chat_api.py: the agent registry, the  *)
(* conversational endpoints, the talk streams (generators handed to        *)
(* StreamingResponse) and the interrupt endpoint.                          *)
(*                                                                         *)
(* A request handler is one atomic action; what it answers (a response or *)
(* the exception it ends with) is a function H_returns of the state it     *)
(* runs in.  A stream generator advances one step at a time (take a        *)
(* phrase, synthesis returns, resume after the yield), so that requests of *)
(* other clients interleave with it exactly where the server can           *)
(* interleave them.                                                        *)
(***************************************************************************)
EXTENDS Integers, Sequences, FiniteSets, TLC

\* ---------------------------------------------------------------- bounds
MaxSessions == 2    \* session ids a client can present / uuid4 can return
MaxAgents == 2      \* YakAgent objects built by agent_create
MaxStreams == 2     \* StreamingResponse generators started
MaxPhrases == 2     \* phrases the segmenter can yield for one agent response
MaxFragments == 3   \* text fragments of one agent response (segmenter runs)
MaxBusinesses == 2  \* business ids a client can present
MaxMenus == 3       \* menu ids uuid4 can return (menus in the database)
MaxGroups == 2      \* grp ids (menu collections)

SessionIds == 1..MaxSessions

\* ------------------------------------------------------------ YakAgent
\* YakAgent and YakStatus are defined in voice_chat/yak_agents.py.  Their
\* model follows the specification's SessionState: one PlaybackStatus per
\* agent, initially IDLE, which yak.agent_status writes and yak.status reads
\* and writes.
IDLE == "IDLE"
TALKING == "TALKING"
YakStatus == {IDLE, TALKING}

\* agent_registry[session_id] = None, the placeholder of agent_reservation
\* (YakAgent objects are numbered from 1)
NoneVal == 0

VARIABLES
    agent_registry,   \* the dict: session id -> NoneVal or a YakAgent object (1..Len(status))
    status,           \* status[a]: the playback status of YakAgent object a
    streams,          \* the stream generators started so far, in request order
    seg,              \* one run of the phrase segmenter under a talk loop (see SegSpec)
    cafes,            \* the cafes collection of the database (see DbSpec)
    opt               \* one menus_get_as_options request (see OptSpec)

vars == <<agent_registry, status, streams, seg, cafes, opt>>

\* The variables the endpoints of the conversation never touch.
storeVars == <<seg, cafes, opt>>

\* Exceptions a handler can end with, and the normal endings.
RuntimeError == "RuntimeError"       \* "No agent found. An agent must be created ..."
KeyError == "KeyError"               \* agent_registry[session_id] on a missing key
AttributeError == "AttributeError"   \* attribute access on None
Errors == {RuntimeError, KeyError, AttributeError}
OK == "ok"
StatusError == "error"               \* {"status": "error", ...} of agent_create

\* YakAgent(...): a new object starts IDLE.
NewYakAgentStatus == IDLE

\* yak.agent_status = v
SetAgentStatus(st, yak, v) == [st EXCEPT ![yak] = v]

\* yak.status = v
SetStatus(st, yak, v) == [st EXCEPT ![yak] = v]

\* yak.status
ReadStatus(st, yak) == st[yak]

\* Mutant of RegistryPut: the assignment rebinds the registry to a new dict
\* holding only the new entry.
RegistryPut_Rebind(reg, key, value) == [k \in {key} |-> value]

\* agent_registry[key] = value
RegistryPut(reg, key, value) ==
    [k \in (DOMAIN reg) \cup {key} |-> IF k = key THEN value ELSE reg[k]]

\* ------------------------------------------------------ stream records
\* kind     which generator: "agent" (talk_with_agent), "avatar"
\*          (talk_with_avatar), "say" (get_agent_to_say)
\* sid, yak the session id of the request and the YakAgent it looked up
\* pos      the number of phrases taken from the segmenter so far
\* pc       "take": about to take the next phrase; "synth": the TTS call for
\*          phrase pos is in flight; "yielded": suspended at the yield of the
\*          chunk of phrase pos; the generator has ended: "exhausted" (the
\*          for loop ran out of phrases), "break" (left by the break),
\*          "returned" (get_agent_to_say's), "aborted" (left by an exception)
\* emitted  the chunks yielded so far
\* History fields, written but never read by the program:
\* synthesized  the phrases handed to the TTS call, in call order
\* failedAt     the phrase whose TTS call raised (0: none)
\* iStart   pos, the number of phrases whose synthesis had started, when
\*          agent_interrupt first ran for sid while the generator was live
\*          (-1: it never did)
Live == {"take", "synth", "yielded"}
Ended == {"exhausted", "break", "returned", "aborted"}
TalkKinds == {"agent", "avatar"}

NewStream(kind, sid, yak) ==
    [kind |-> kind, sid |-> sid, yak |-> yak, pos |-> 0,
     pc |-> "take", emitted |-> <<>>, synthesized |-> <<>>,
     failedAt |-> 0, iStart |-> -1]

StreamIds == 1..Len(streams)

\* TTS.audio_stream_generator(phrase) / TTS.audio_viseme_generator(phrase):
\* the artifacts of phrase k are identified by k.
Synthesize(kind, k) ==
    [audio |-> k, meta |-> IF kind = "agent" THEN <<"phrase", k>> ELSE <<"visemes", k>>]

\* MultiPartResponse(json.dumps(meta), stream.audio_data).prepare()
Frame(meta, audio) == [meta |-> meta, audio |-> audio]

\* No segmenter run is followed and the collection is empty.
NoSeg == [pc |-> "none"]
NoCafes == [b \in {} |-> NoneVal]
NoOpt == [pc |-> "none"]

Init ==
    /\ agent_registry = [k \in {} |-> NoneVal]
    /\ status = <<>>
    /\ streams = <<>>
    /\ seg = NoSeg
    /\ cafes = NoCafes
    /\ opt = NoOpt

\* ------------------------------------------------------ request handlers

\* GET /agent/reservation/: a fresh uuid4 is stored with the placeholder None.
agent_reservation(sid) ==
    /\ sid \notin DOMAIN agent_registry
    /\ agent_registry' = RegistryPut(agent_registry, sid, NoneVal)
    /\ UNCHANGED <<status, streams>>

\* POST /agent/create/: config.session_id is whatever the client sends.
\* The request takes one of the handler's four paths:
\*   "raises"      get_cafe, get_one_menu or YakAgent(...) raised (caught)
\*   "no_menu"     get_one_menu returned None
\*   "user_given"  config.user_id is set (NotImplementedError, caught)
\*   "builds"      the agent is built and stored
CreatePaths == {"raises", "no_menu", "user_given", "builds"}

agent_create_returns(sid, path) == IF path = "builds" THEN OK ELSE StatusError

\* agent_create with the registry write moved out of the try block: the
\* entry is written on the error paths too, with no agent.
agent_create_StoresOnError(sid, path) ==
    IF path # "builds"
    THEN /\ agent_registry' = RegistryPut(agent_registry, sid, NoneVal)
         /\ UNCHANGED <<status, streams>>
    ELSE /\ Len(status) < MaxAgents
         /\ status' = Append(status, NewYakAgentStatus)
         /\ agent_registry' = RegistryPut(agent_registry, sid, Len(status) + 1)
         /\ UNCHANGED streams

agent_create(sid, path) ==
    IF path # "builds"
    THEN UNCHANGED vars
    ELSE /\ Len(status) < MaxAgents
         /\ status' = Append(status, NewYakAgentStatus)
         /\ agent_registry' = RegistryPut(agent_registry, sid, Len(status) + 1)
         /\ UNCHANGED streams

\* GET /agent/get_avatar_config/{session_id}
get_avatar_config_returns(sid) ==
    IF sid \notin DOMAIN agent_registry THEN RuntimeError
    ELSE IF agent_registry[sid] = NoneVal THEN AttributeError  \* yak.avatar_config
    ELSE OK

get_avatar_config(sid) ==
    /\ get_avatar_config_returns(sid) \in Errors \cup {OK}
    /\ UNCHANGED vars

\* POST /chat_with_agent: text only, no speech and no status.
chat_with_agent_returns(sid) ==
    IF sid \notin DOMAIN agent_registry THEN RuntimeError
    ELSE IF agent_registry[sid] = NoneVal THEN AttributeError  \* getattr(yak, "stream")
    ELSE OK

chat_with_agent(sid) ==
    /\ chat_with_agent_returns(sid) \in Errors \cup {OK}
    /\ UNCHANGED vars

\* POST /get_agent_to_say: one chunk for the whole message.
get_agent_to_say_returns(sid) ==
    IF sid \notin DOMAIN agent_registry THEN RuntimeError
    ELSE IF agent_registry[sid] = NoneVal THEN AttributeError  \* yak.voice_id
    ELSE OK

get_agent_to_say(sid) ==
    IF get_agent_to_say_returns(sid) # OK
    THEN UNCHANGED vars
    ELSE /\ Len(streams) < MaxStreams
         /\ streams' = Append(streams, NewStream("say", sid, agent_registry[sid]))
         /\ UNCHANGED <<agent_registry, status>>

\* GET /get_last_response/{session_id}: the lookup is outside the try, the
\* walk through yak.agent.memory inside it.
get_last_response_returns(sid) ==
    IF sid \notin DOMAIN agent_registry THEN KeyError ELSE OK

get_last_response(sid) ==
    /\ get_last_response_returns(sid) \in Errors \cup {OK}
    /\ UNCHANGED vars

\* POST /talk_with_agent
talk_with_agent_returns(sid) ==
    IF sid \notin DOMAIN agent_registry THEN RuntimeError
    ELSE IF agent_registry[sid] = NoneVal THEN AttributeError  \* yak.voice_id
    ELSE OK

talk_with_agent(sid) ==
    IF talk_with_agent_returns(sid) # OK
    THEN UNCHANGED vars
    ELSE /\ Len(streams) < MaxStreams
         /\ LET yak == agent_registry[sid] IN
            /\ status' = SetAgentStatus(status, yak, TALKING)
            /\ streams' = Append(streams, NewStream("agent", sid, yak))
         /\ UNCHANGED agent_registry

\* POST /agent/talk_with_avatar
talk_with_avatar_returns(sid) ==
    IF sid \notin DOMAIN agent_registry THEN RuntimeError
    ELSE IF agent_registry[sid] = NoneVal THEN AttributeError  \* yak.voice_id
    ELSE OK

talk_with_avatar(sid) ==
    IF talk_with_avatar_returns(sid) # OK
    THEN UNCHANGED vars
    ELSE /\ Len(streams) < MaxStreams
         /\ LET yak == agent_registry[sid] IN
            /\ status' = SetAgentStatus(status, yak, TALKING)
            /\ streams' = Append(streams, NewStream("avatar", sid, yak))
         /\ UNCHANGED agent_registry

\* History only: the generators of session sid that are live when
\* agent_interrupt runs note how far they were.
MarkInterrupt(ss, sid) ==
    [i \in DOMAIN ss |->
        IF ss[i].sid = sid /\ ss[i].pc \in Live /\ ss[i].iStart = -1
        THEN [ss[i] EXCEPT !.iStart = ss[i].pos]
        ELSE ss[i]]

\* GET /agent/interrupt/{session_id}
agent_interrupt_returns(sid) ==
    IF sid \notin DOMAIN agent_registry THEN KeyError ELSE OK

\* Mutant of InterruptStatus: the handler flips the status instead of setting
\* it to IDLE.
InterruptStatus_Toggle(st, yak) ==
    IF yak # NoneVal
    THEN SetAgentStatus(st, yak, IF st[yak] = IDLE THEN TALKING ELSE IDLE)
    ELSE st

\* Mutant of InterruptStatus: the status is a field shared by all agents, so
\* the interrupt of one session silences every session.
InterruptStatus_All(st, yak) ==
    IF yak # NoneVal THEN [a \in DOMAIN st |-> IDLE] ELSE st

\* if yak: yak.agent_status = YakStatus.IDLE
InterruptStatus(st, yak) ==
    IF yak # NoneVal THEN SetAgentStatus(st, yak, IDLE) ELSE st

\* Mutant of agent_interrupt: the lookup is agent_registry.setdefault(
\* session_id, None), which enters an unknown id into the registry.
agent_interrupt_SetDefault(sid) ==
    IF sid \notin DOMAIN agent_registry
    THEN /\ agent_registry' = RegistryPut(agent_registry, sid, NoneVal)
         /\ UNCHANGED <<status, streams>>
    ELSE /\ status' = InterruptStatus(status, agent_registry[sid])
         /\ streams' = MarkInterrupt(streams, sid)
         /\ UNCHANGED agent_registry

agent_interrupt(sid) ==
    IF agent_interrupt_returns(sid) # OK
    THEN UNCHANGED vars
    ELSE /\ status' = InterruptStatus(status, agent_registry[sid])
         /\ streams' = MarkInterrupt(streams, sid)
         /\ UNCHANGED agent_registry

\* ---------------------------------------------------- stream generators
SetStream(i, rec) == [streams EXCEPT ![i] = rec]

\* Mutant of LoopExit: the generator returns without the assignment after the
\* loop.
LoopExit_NoReset(i, how) ==
    /\ streams' = SetStream(i, [streams[i] EXCEPT !.pc = how])
    /\ UNCHANGED status

\* The generator ends after its loop: yak.status = YakStatus.IDLE, return.
\* how: "exhausted" or "break".
LoopExit(i, how) ==
    /\ streams' = SetStream(i, [streams[i] EXCEPT !.pc = how])
    /\ status' = SetStatus(status, streams[i].yak, IDLE)

\* An exception leaves the generator: nothing after the raise runs.
GenRaise(i, k) ==
    /\ streams' = SetStream(i, [streams[i] EXCEPT !.pc = "aborted", !.failedAt = k])
    /\ UNCHANGED status

\* Mutant of GenTake: the loop body sets the status to TALKING again for each
\* phrase it takes.
GenTake_SetsTalking(i) ==
    /\ i \in StreamIds
    /\ streams[i].pc = "take"
    /\ streams[i].kind \in TalkKinds
    /\ streams[i].pos < MaxPhrases
    /\ streams' = SetStream(i, [streams[i] EXCEPT
                      !.pos = @ + 1, !.pc = "synth",
                      !.synthesized = Append(@, streams[i].pos + 1)])
    /\ status' = SetStatus(status, streams[i].yak, TALKING)
    /\ UNCHANGED agent_registry

\* for phrase in TTS.text_preprocessor(response, filter=None): the segmenter
\* yields the next phrase, which goes straight into the TTS call.
GenTake(i) ==
    /\ i \in StreamIds
    /\ streams[i].pc = "take"
    /\ streams[i].kind \in TalkKinds
    /\ streams[i].pos < MaxPhrases
    /\ streams' = SetStream(i, [streams[i] EXCEPT
                      !.pos = @ + 1, !.pc = "synth",
                      !.synthesized = Append(@, streams[i].pos + 1)])
    /\ UNCHANGED <<agent_registry, status>>

\* The agent's text has ended: the for loop is over.
GenExhausted(i) ==
    /\ i \in StreamIds
    /\ streams[i].pc = "take"
    /\ streams[i].kind \in TalkKinds
    /\ LoopExit(i, "exhausted")
    /\ UNCHANGED agent_registry

\* The agent's text stream (or the segmenter reading it) raises while the
\* loop waits for the next phrase.
GenSourceRaises(i) ==
    /\ i \in StreamIds
    /\ streams[i].pc = "take"
    /\ streams[i].kind \in TalkKinds
    /\ streams[i].pos < MaxPhrases
    /\ GenRaise(i, 0)
    /\ UNCHANGED agent_registry

\* get_agent_to_say's generator: its only statement before the yield is the
\* TTS call on the whole prompt.
GenSayStart(i) ==
    /\ i \in StreamIds
    /\ streams[i].pc = "take"
    /\ streams[i].kind = "say"
    /\ streams' = SetStream(i, [streams[i] EXCEPT
                      !.pos = 1, !.pc = "synth", !.synthesized = <<1>>])
    /\ UNCHANGED <<agent_registry, status>>

\* Mutant of GenYield: the chunk is framed from the audio of the first phrase
\* instead of the audio just synthesized.
GenYield_StaleAudio(i) ==
    /\ i \in StreamIds
    /\ streams[i].pc = "synth"
    /\ LET s == streams[i]
           r == Synthesize(s.kind, s.pos)
       IN streams' = SetStream(i, [s EXCEPT
                         !.pc = "yielded",
                         !.emitted = Append(@, Frame(r.meta, Synthesize(s.kind, 1).audio))])
    /\ UNCHANGED <<agent_registry, status>>

\* Mutant of GenYield: the metadata block is computed once, from the first
\* phrase, and reused for every chunk.
GenYield_FirstMeta(i) ==
    /\ i \in StreamIds
    /\ streams[i].pc = "synth"
    /\ LET s == streams[i]
           r == Synthesize(s.kind, s.pos)
       IN streams' = SetStream(i, [s EXCEPT
                         !.pc = "yielded",
                         !.emitted = Append(@, Frame(Synthesize(s.kind, 1).meta, r.audio))])
    /\ UNCHANGED <<agent_registry, status>>

\* The TTS call returns: the chunk is framed and yielded.
GenYield(i) ==
    /\ i \in StreamIds
    /\ streams[i].pc = "synth"
    /\ LET s == streams[i]
           r == Synthesize(s.kind, s.pos)
       IN streams' = SetStream(i, [s EXCEPT
                         !.pc = "yielded",
                         !.emitted = Append(@, Frame(r.meta, r.audio))])
    /\ UNCHANGED <<agent_registry, status>>

\* The TTS call raises: there is no try around it.
GenSynthRaises(i) ==
    /\ i \in StreamIds
    /\ streams[i].pc = "synth"
    /\ GenRaise(i, streams[i].pos)
    /\ UNCHANGED agent_registry

\* The consumer asks for the next chunk and a talk generator resumes after
\* the yield: if yak.status != YakStatus.TALKING: break.
GenResume(i) ==
    /\ i \in StreamIds
    /\ streams[i].pc = "yielded"
    /\ streams[i].kind \in TalkKinds
    /\ IF ReadStatus(status, streams[i].yak) # TALKING
       THEN LoopExit(i, "break")
       ELSE /\ streams' = SetStream(i, [streams[i] EXCEPT !.pc = "take"])
            /\ UNCHANGED status
    /\ UNCHANGED agent_registry

\* Mutant of GenSayReturn: the generator ends as the talk loops do, with
\* yak.status = YakStatus.IDLE.
GenSayReturn_ResetsStatus(i) ==
    /\ i \in StreamIds
    /\ streams[i].pc = "yielded"
    /\ streams[i].kind = "say"
    /\ LoopExit(i, "returned")
    /\ UNCHANGED agent_registry

\* get_agent_to_say's generator resumes after its yield and returns.
GenSayReturn(i) ==
    /\ i \in StreamIds
    /\ streams[i].pc = "yielded"
    /\ streams[i].kind = "say"
    /\ streams' = SetStream(i, [streams[i] EXCEPT !.pc = "returned"])
    /\ UNCHANGED <<agent_registry, status>>

StreamStep(i) ==
    \/ GenTake(i)
    \/ GenExhausted(i)
    \/ GenSourceRaises(i)
    \/ GenSayStart(i)
    \/ GenYield(i)
    \/ GenSynthRaises(i)
    \/ GenResume(i)
    \/ GenSayReturn(i)

Next ==
    \/ \E sid \in SessionIds : agent_reservation(sid) /\ UNCHANGED storeVars
    \/ \E sid \in SessionIds, path \in CreatePaths :
          agent_create(sid, path) /\ UNCHANGED storeVars
    \/ \E sid \in SessionIds : get_avatar_config(sid) /\ UNCHANGED storeVars
    \/ \E sid \in SessionIds : chat_with_agent(sid) /\ UNCHANGED storeVars
    \/ \E sid \in SessionIds : get_agent_to_say(sid) /\ UNCHANGED storeVars
    \/ \E sid \in SessionIds : get_last_response(sid) /\ UNCHANGED storeVars
    \/ \E sid \in SessionIds : talk_with_agent(sid) /\ UNCHANGED storeVars
    \/ \E sid \in SessionIds : talk_with_avatar(sid) /\ UNCHANGED storeVars
    \/ \E sid \in SessionIds : agent_interrupt(sid) /\ UNCHANGED storeVars
    \/ \E i \in 1..MaxStreams : GenTake(i) /\ UNCHANGED storeVars
    \/ \E i \in 1..MaxStreams : GenExhausted(i) /\ UNCHANGED storeVars
    \/ \E i \in 1..MaxStreams : GenSourceRaises(i) /\ UNCHANGED storeVars
    \/ \E i \in 1..MaxStreams : GenSayStart(i) /\ UNCHANGED storeVars
    \/ \E i \in 1..MaxStreams : GenYield(i) /\ UNCHANGED storeVars
    \/ \E i \in 1..MaxStreams : GenSynthRaises(i) /\ UNCHANGED storeVars
    \/ \E i \in 1..MaxStreams : GenResume(i) /\ UNCHANGED storeVars
    \/ \E i \in 1..MaxStreams : GenSayReturn(i) /\ UNCHANGED storeVars

Spec == Init /\ [][Next]_vars

\* Every generator that can take a step eventually takes one: Starlette keeps
\* iterating a StreamingResponse's generator while the client reads.
FairSpec ==
    Spec /\ \A i \in 1..MaxStreams : WF_vars(StreamStep(i) /\ UNCHANGED storeVars)

\* ===================================================================
\* The phrase segmenter under the talk loop
\* ===================================================================
\* TTS.text_preprocessor(response, filter=None) is defined in
\* voice_chat/service/azure_TTS.py; its model follows section 4.1 of the
\* specification.  Text is a sequence of characters, a fragment is a text.
\* The run of one talk_with_agent generator over its segmenter is followed in
\* seg, with no other request in the way:
\*   pc         "run": the segmenter reads fragments; "yield": it is suspended
\*              at the yield of a phrase and the loop body has the phrase;
\*              "emitted": the loop is suspended at the yield of the chunk;
\*              "done": the segmenter is exhausted (the for loop is over);
\*              "closed": the loop left by the break
\*   caller     "talk": the call of the talk endpoints; "other": another caller
\*   filter     the filter argument of the call
\*   threshold  the number of accumulated fragments that closes a phrase
\*   source     the fragments the agent has yet to produce
\*   taken      the fragments consumed so far, in order
\*   buf, n     the accumulated text and the number of fragments in it
\*   phrases    the phrases yielded so far
\*   chunks     the chunks the loop has emitted
TerminalMarkers == {".", "?"}

NoFilter == "None"
StageDirections == "stage_directions"
Filters == {NoFilter, StageDirections}

\* Mutant of TalkFilter: the talk endpoints pass a filter that drops stage
\* directions.
TalkFilter_StageDirections == StageDirections

\* TTS.text_preprocessor(response, filter=None)
TalkFilter == NoFilter

\* The filter predicate excludes the fragment.
Excluded(filter, frag) ==
    filter = StageDirections /\ frag # <<>> /\ frag[1] = "("

HasMarker(frag) == \E k \in 1..Len(frag) : frag[k] \in TerminalMarkers

\* The fragment closes the phrase: it carries a terminal marker, or with it
\* the accumulation threshold is reached.
ClosesPhrase(frag, n, threshold) == HasMarker(frag) \/ n + 1 >= threshold

Thresholds == {2, 5}

Fragments ==
    {<<"a", " ">>, <<"b", ".">>, <<"?", "c">>, <<"(", "x", ")">>, <<>>}

\* "Hello ", "there, ", "how are you?", " I am fine."
Scenario ==
    << <<"H", "e", "l", "l", "o", " ">>,
       <<"t", "h", "e", "r", "e", ",", " ">>,
       <<"h", "o", "w", " ", "a", "r", "e", " ", "y", "o", "u", "?">>,
       <<" ", "I", " ", "a", "m", " ", "f", "i", "n", "e", ".">> >>

RECURSIVE SeqsUpTo(_, _)
SeqsUpTo(S, n) ==
    IF n = 0 THEN {<<>>}
    ELSE LET shorter == SeqsUpTo(S, n - 1)
         IN shorter \cup {Append(q, x) : q \in shorter, x \in S}

Sources == SeqsUpTo(Fragments, MaxFragments) \cup {Scenario}

NewSeg(caller, filter, threshold, source) ==
    [pc |-> "run", caller |-> caller, filter |-> filter, threshold |-> threshold,
     source |-> source, taken |-> <<>>, buf |-> <<>>, n |-> 0,
     phrases |-> <<>>, chunks |-> <<>>]

SegInit ==
    /\ agent_registry = [k \in {} |-> NoneVal]
    /\ status = <<>>
    /\ streams = <<>>
    /\ cafes = NoCafes
    /\ opt = NoOpt
    /\ \E source \in Sources, threshold \in Thresholds :
          \/ seg = NewSeg("talk", TalkFilter, threshold, source)
          \/ \E filter \in Filters : seg = NewSeg("other", filter, threshold, source)

\* The segmenter reads the next fragment: an excluded fragment is dropped,
\* any other is accumulated and, when it closes the phrase, the accumulated
\* text is yielded.
SegConsume ==
    /\ seg.pc = "run"
    /\ seg.source # <<>>
    /\ LET frag == Head(seg.source)
           rest == [seg EXCEPT !.source = Tail(@), !.taken = Append(@, frag)]
       IN seg' =
            IF Excluded(seg.filter, frag) THEN rest
            ELSE IF ClosesPhrase(frag, seg.n, seg.threshold)
                 THEN [rest EXCEPT !.phrases = Append(@, seg.buf \o frag),
                                   !.buf = <<>>, !.n = 0, !.pc = "yield"]
                 ELSE [rest EXCEPT !.buf = @ \o frag, !.n = @ + 1]
    /\ UNCHANGED <<agent_registry, status, streams, cafes, opt>>

\* The agent's text has ended: a non-empty remainder is yielded as the last
\* phrase, then the segmenter is exhausted.
SegExhausted ==
    /\ seg.pc = "run"
    /\ seg.source = <<>>
    /\ seg' = IF seg.buf # <<>>
              THEN [seg EXCEPT !.phrases = Append(@, seg.buf),
                               !.buf = <<>>, !.n = 0, !.pc = "yield"]
              ELSE [seg EXCEPT !.pc = "done"]
    /\ UNCHANGED <<agent_registry, status, streams, cafes, opt>>

\* Mutant of TalkLoopEmit: the chunk carries the first phrase's text as its
\* metadata.
TalkLoopEmit_FirstPhraseMeta ==
    /\ seg.pc = "yield"
    /\ LET phrase == seg.phrases[Len(seg.phrases)]
           r == Synthesize("agent", phrase)
       IN seg' = [seg EXCEPT
                     !.chunks = Append(@, Frame(Synthesize("agent", seg.phrases[1]).meta,
                                                r.audio)),
                     !.pc = "emitted"]
    /\ UNCHANGED <<agent_registry, status, streams, cafes, opt>>

\* The loop body of talk_with_agent on the phrase just yielded: TTS call,
\* frame, yield.
TalkLoopEmit ==
    /\ seg.pc = "yield"
    /\ LET phrase == seg.phrases[Len(seg.phrases)]
           r == Synthesize("agent", phrase)
       IN seg' = [seg EXCEPT !.chunks = Append(@, Frame(r.meta, r.audio)),
                             !.pc = "emitted"]
    /\ UNCHANGED <<agent_registry, status, streams, cafes, opt>>

\* After the yield the status is still TALKING: the for loop asks the
\* segmenter for the next phrase.
TalkLoopContinue ==
    /\ seg.pc = "emitted"
    /\ seg' = [seg EXCEPT !.pc = "run"]
    /\ UNCHANGED <<agent_registry, status, streams, cafes, opt>>

\* After the yield the status is not TALKING: break; the segmenter is never
\* resumed.
TalkLoopBreak ==
    /\ seg.pc = "emitted"
    /\ seg' = [seg EXCEPT !.pc = "closed"]
    /\ UNCHANGED <<agent_registry, status, streams, cafes, opt>>

SegNext ==
    \/ SegConsume
    \/ SegExhausted
    \/ TalkLoopEmit
    \/ TalkLoopContinue
    \/ TalkLoopBreak

SegSpec == SegInit /\ [][SegNext]_vars

\* ===================================================================
\* MenuHelper over the cafes collection
\* ===================================================================
\* cafes[b] is the document of business b.  Cafe and Menu are defined in
\* voice_chat/data_classes/data_models.py: a document has the settings fields
\* (name stands for them) and the list menus; a menu has menu_id, menu_text
\* and the dict collection, whose keys grp_id and sequence_number may be
\* missing (Absent).  to_dict and from_dict map an object to the dict of its
\* fields and back.  A grp id is a uuid4 string, as upload_menu makes them.
BusinessIds == 1..MaxBusinesses
MenuIds == 1..MaxMenus
GroupIds == 1..MaxGroups

Absent == -1
NoCollection == [grp_id |-> Absent, sequence_number |-> Absent]

EmptyText == <<>>
Texts == {<<"x">>, <<"y">>}           \* what the OCR service or a client sends
DefaultName == "unnamed"
Names == {"n1", "n2"}

MenuFields == {"menu_id", "menu_text", "collection"}

\* Menu(menu_id=file_id, collection={"grp_id": ..., "sequence_number": ...}, ...)
NewMenu(id, g, n) ==
    [menu_id |-> id, menu_text |-> EmptyText,
     collection |-> [grp_id |-> g, sequence_number |-> n]]

\* Cafe(business_uid=business_uid, menus=[...])
NewCafe(b, menus) == [business_uid |-> b, name |-> DefaultName, menus |-> menus]

\* get_cafe(db, business_uid) is not None
CafeFound(db, b) == b \in DOMAIN db

\* get_cafe(db, business_uid, {"menus.menu_id": menu_id}) is not None
CafeFoundWithMenu(db, b, id) ==
    b \in DOMAIN db /\ \E k \in 1..Len(db[b].menus) : db[b].menus[k].menu_id = id

\* db.cafes.update_one({"business_uid": b}, {"$set": doc}, upsert=True)
UpsertCafe(db, b, doc) == [k \in (DOMAIN db) \cup {b} |-> IF k = b THEN doc ELSE db[k]]

\* db.cafes.update_one({"business_uid": b}, {"$set": {"menus": menus}})
SetMenus(db, b, menus) == [db EXCEPT ![b].menus = menus]

\* list(filter(...)): the elements of list at the positions in keep, in order.
RECURSIVE Filter(_, _)
Filter(list, keep) ==
    IF list = <<>> THEN <<>>
    ELSE LET front == SubSeq(list, 1, Len(list) - 1)
         IN IF Len(list) \in keep
            THEN Append(Filter(front, keep), list[Len(list)])
            ELSE Filter(front, keep)

\* get_menu_list(db, business_uid, for_display): the menus of the cafe, with
\* for_display only those whose sequence_number is 0 or missing.
get_menu_list(db, b, for_display) ==
    IF ~CafeFound(db, b) THEN <<>>
    ELSE LET menus == db[b].menus
         IN IF for_display
            THEN Filter(menus, {k \in 1..Len(menus) :
                                  menus[k].collection.sequence_number \in {Absent, 0}})
            ELSE menus

\* sorted(menus, key=lambda x: int(x.collection["sequence_number"])): stable.
RECURSIVE SortedBySequence(_)
SortedBySequence(menus) ==
    IF menus = <<>> THEN <<>>
    ELSE LET keys == {menus[k].collection.sequence_number : k \in 1..Len(menus)}
             least == CHOOSE n \in keys : \A m \in keys : n <= m
             first == CHOOSE k \in 1..Len(menus) :
                         /\ menus[k].collection.sequence_number = least
                         /\ \A j \in 1..(k - 1) :
                               menus[j].collection.sequence_number # least
         IN <<menus[first]>> \o
            SortedBySequence(Filter(menus, (1..Len(menus)) \ {first}))

\* "".join([menu.menu_text for menu in menus])
RECURSIVE JoinText(_)
JoinText(menus) ==
    IF menus = <<>> THEN EmptyText ELSE Head(menus).menu_text \o JoinText(Tail(menus))

\* The menu ids and grp ids in use; uuid4 gives one that is not.
AllMenus ==
    UNION {{cafes[b].menus[k] : k \in 1..Len(cafes[b].menus)} : b \in DOMAIN cafes}
UsedMenuIds == {m.menu_id : m \in AllMenus}
UsedGroupIds == {m.collection.grp_id : m \in AllMenus} \ {Absent}
Least(S) == CHOOSE n \in S : \A m \in S : n <= m

\* The empty string as a menu id.
NoMenuId == 0

DbInit ==
    /\ agent_registry = [k \in {} |-> NoneVal]
    /\ status = <<>>
    /\ streams = <<>>
    /\ seg = NoSeg
    /\ cafes = NoCafes
    /\ opt = NoOpt

\* count_menus_in_collection raises when get_cafe returns None (cafe.menus)
\* and when the cafe has no menus (menus is never bound).
count_menus_in_collection_raises(db, b) ==
    ~CafeFound(db, b) \/ Len(db[b].menus) = 0

count_menus_in_collection(db, b, g) ==
    Cardinality({k \in 1..Len(db[b].menus) : db[b].menus[k].collection.grp_id = g})

\* save_menu: append to the cafe's menus, or insert a new cafe with the menu.
save_menu(db, b, new_menu) ==
    IF CafeFound(db, b)
    THEN UpsertCafe(db, b, [db[b] EXCEPT !.menus = Append(@, new_menu)])
    ELSE UpsertCafe(db, b, NewCafe(b, <<new_menu>>))

\* POST /menus/upload/: grp is NoneVal for a null-like grp_id (a new
\* collection is made), else the collection the image is added to.
upload_menu(b, grp) ==
    /\ MenuIds \ UsedMenuIds # {}
    /\ grp = NoneVal => GroupIds \ UsedGroupIds # {}
    /\ IF grp # NoneVal /\ count_menus_in_collection_raises(cafes, b)
       THEN UNCHANGED cafes
       ELSE LET id == Least(MenuIds \ UsedMenuIds)
                g == IF grp = NoneVal THEN Least(GroupIds \ UsedGroupIds) ELSE grp
                n == IF grp = NoneVal THEN 0
                     ELSE count_menus_in_collection(cafes, b, grp)
            IN cafes' = save_menu(cafes, b, NewMenu(id, g, n))
    /\ UNCHANGED <<agent_registry, status, streams, seg, opt>>

\* update_menu_field(db, business_uid, menu_id, value, "menu_text") succeeds
\* (ok) when the cafe with that menu is found; the first menu with the id is
\* written.
update_menu_field_ok(db, b, id) == CafeFoundWithMenu(db, b, id)

update_menu_field(db, b, id, value) ==
    IF ~CafeFoundWithMenu(db, b, id) THEN db
    ELSE LET menus == db[b].menus
             first == Least({k \in 1..Len(menus) : menus[k].menu_id = id})
         IN SetMenus(db, b, [menus EXCEPT ![first].menu_text = value])

\* GET /menus/ocr/{business_uid}/{menu_id}: the OCR text is stored as the
\* menu's text.
menu_ocr(b, id, text) ==
    /\ cafes' = update_menu_field(cafes, b, id, text)
    /\ UNCHANGED <<agent_registry, status, streams, seg, opt>>

\* collate_text: the menus it collects, in the order it joins them.
collate_text_menus(db, b, g) ==
    LET menus == get_menu_list(db, b, TRUE)
    IN Filter(menus, {k \in 1..Len(menus) : menus[k].collection.grp_id = g})

collate_text_primary(db, b, g) ==
    LET sorted_menus == SortedBySequence(collate_text_menus(db, b, g))
    IN IF Len(sorted_menus) > 0 THEN sorted_menus[1].menu_id ELSE NoMenuId

\* Mutant of collate_text_returns: the ok of update_menu_field is returned
\* as the ok of collate_text.
collate_text_returns_OkOfUpdate(db, b, g) ==
    IF Len(get_menu_list(db, b, TRUE)) = 0
    THEN [ok |-> FALSE, count |-> 0, primary_menu_id |-> NoMenuId]
    ELSE LET primary == collate_text_primary(db, b, g)
             updated == update_menu_field_ok(db, b, primary)
         IN [ok |-> updated,
             count |-> IF updated THEN Len(collate_text_menus(db, b, g)) ELSE 0,
             primary_menu_id |-> IF updated THEN primary ELSE NoMenuId]

\* collate_text's result (ok, count, primary_menu_id).
collate_text_returns(db, b, g) ==
    IF Len(get_menu_list(db, b, TRUE)) = 0
    THEN [ok |-> FALSE, count |-> 0, primary_menu_id |-> NoMenuId]
    ELSE LET primary == collate_text_primary(db, b, g)
             updated == update_menu_field_ok(db, b, primary)
         IN [ok |-> TRUE,
             count |-> IF updated THEN Len(collate_text_menus(db, b, g)) ELSE 0,
             primary_menu_id |-> IF updated THEN primary ELSE NoMenuId]

\* collate_text's effect on the collection.
collate_text(db, b, g) ==
    IF Len(get_menu_list(db, b, TRUE)) = 0 THEN db
    ELSE update_menu_field(db, b, collate_text_primary(db, b, g),
                           JoinText(SortedBySequence(collate_text_menus(db, b, g))))

\* The status and the payload menus_collate_images answers with.
menus_collate_images_returns(db, b, g) ==
    [ status |-> IF collate_text_returns(db, b, g).ok THEN "success" ELSE "erorr",
      primary_menu_id |-> collate_text_returns(db, b, g).primary_menu_id ]

\* GET /menus/collate_images/{business_uid}/{grp_id}
menus_collate_images(b, g) ==
    /\ cafes' = collate_text(cafes, b, g)
    /\ UNCHANGED <<agent_registry, status, streams, seg, opt>>

\* Mutant of MergeMenu: the union is taken the other way round, tmp |
\* menu.to_dict(), so the stored fields win.
MergeMenu_StoredWins(stored, upd) == stored

\* updated_menu.to_dict(): the fields the submitted menu has.
\* menu.to_dict() | tmp: the submitted fields over the stored ones.
MergeMenu(stored, upd) ==
    [menu_id |-> upd.menu.menu_id,
     menu_text |-> IF "menu_text" \in upd.keys THEN upd.menu.menu_text
                   ELSE stored.menu_text,
     collection |-> IF "collection" \in upd.keys THEN upd.menu.collection
                    ELSE stored.collection]

update_menu_ok(db, b, upd) == CafeFoundWithMenu(db, b, upd.menu.menu_id)

update_menu(db, b, upd) ==
    IF ~CafeFoundWithMenu(db, b, upd.menu.menu_id) THEN db
    ELSE LET menus == db[b].menus
         IN SetMenus(db, b,
                [k \in 1..Len(menus) |->
                    IF menus[k].menu_id = upd.menu.menu_id
                    THEN MergeMenu(menus[k], upd)
                    ELSE menus[k]])

\* The menus a client submits to /menus/update_one.
SubmittedMenus ==
    {[menu |-> [menu_id |-> id, menu_text |-> text, collection |-> NoCollection],
      keys |-> keys] :
        id \in MenuIds, text \in Texts,
        keys \in {{"menu_id"}, {"menu_id", "menu_text"},
                  {"menu_id", "collection"}, MenuFields}}

\* PUT /menus/update_one/{business_uid}/{menu_id}
menus_update_one(b, upd) ==
    /\ cafes' = update_menu(cafes, b, upd)
    /\ UNCHANGED <<agent_registry, status, streams, seg, opt>>

\* upsert_cafe_settings(db, business_uid, updated_partial_cafe, skip_fields)
upsert_cafe_settings(db, b, updated, skip_fields) ==
    IF ~CafeFound(db, b) THEN UpsertCafe(db, b, updated)
    ELSE UpsertCafe(db, b,
            [business_uid |-> IF "business_uid" \in skip_fields
                              THEN db[b].business_uid ELSE updated.business_uid,
             name |-> IF "name" \in skip_fields THEN db[b].name ELSE updated.name,
             menus |-> IF "menus" \in skip_fields THEN db[b].menus ELSE updated.menus])

\* Mutant of SkipFields: no field is skipped.
SkipFields_None == {}

\* The default of skip_fields.
SkipFields == {"menus"}

\* A menu that comes with submitted settings.
ClientMenu == [menu_id |-> MaxMenus, menu_text |-> <<"x">>, collection |-> NoCollection]

\* The Cafe objects a client submits to /cafe/settings/save.
SubmittedCafes ==
    {[business_uid |-> b, name |-> name, menus |-> menus] :
        b \in BusinessIds, name \in Names, menus \in {<<>>, <<ClientMenu>>}}

\* POST /cafe/settings/save
cafe_save_settings(settings) ==
    /\ cafes' = upsert_cafe_settings(cafes, settings.business_uid, settings, SkipFields)
    /\ UNCHANGED <<agent_registry, status, streams, seg, opt>>

DbNext ==
    \/ \E b \in BusinessIds, grp \in GroupIds \cup {NoneVal} : upload_menu(b, grp)
    \/ \E b \in BusinessIds, id \in MenuIds, text \in Texts : menu_ocr(b, id, text)
    \/ \E b \in BusinessIds, g \in GroupIds : menus_collate_images(b, g)
    \/ \E b \in BusinessIds, upd \in SubmittedMenus : menus_update_one(b, upd)
    \/ \E settings \in SubmittedCafes : cafe_save_settings(settings)

DbSpec == DbInit /\ [][DbNext]_vars

\* ===================================================================
\* menus_get_as_options: the options of the menu selector and its default
\* ===================================================================
\* The request is followed one loop iteration at a time.  Its menus are the
\* list get_menu_list(database, business_uid, for_display=True) returned,
\* reduced to the fields the endpoint reads: menu_id, name, valid_time_range.
MaxOptionMenus == 2

\* A datetime is a calendar date and a time of day (an hour of it).
Dates == {1, 2}
Hours == 0..3
Datetimes == [date : Dates, time : Hours]
NoDatetime == [date |-> Absent, time |-> Absent]

\* valid_time_range is a dict; a key it lacks is NoDatetime.
ValidTimeRanges ==
    { [start |-> NoDatetime, end |-> NoDatetime],
      [start |-> [date |-> 1, time |-> 1], end |-> NoDatetime],
      [start |-> [date |-> 1, time |-> 1], end |-> [date |-> 1, time |-> 2]],
      [start |-> [date |-> 1, time |-> 3], end |-> [date |-> 2, time |-> 1]] }

HasKey(range, key) ==
    IF key = "start" THEN range.start # NoDatetime ELSE range.end # NoDatetime

OptionMenu(id, range) == [menu_id |-> id, name |-> id, valid_time_range |-> range]

\* The displayable lists: menu ids are distinct, here the positions.
DisplayedLists ==
    UNION { { [k \in 1..n |-> OptionMenu(k, ranges[k])] :
                ranges \in [1..n -> ValidTimeRanges] } : n \in 0..MaxOptionMenus }

\* start.date() != end: a date compared with a datetime.  The two are never
\* equal, whatever the calendar date of end is.
DateDiffersFromDatetime(d, dt) == TRUE

Straddles(range) == DateDiffersFromDatetime(range.start.date, range.end)

\* The test the loop applies to a menu that has both keys.
InTimeRange(range, t) ==
    IF Straddles(range)
    THEN t <= range.end.time \/ t >= range.start.time
    ELSE t <= range.end.time /\ t >= range.start.time

Option(menu) == [label |-> menu.name, value |-> menu.menu_id]

OptInit ==
    /\ agent_registry = [s \in {} |-> NoneVal]
    /\ status = <<>>
    /\ streams = <<>>
    /\ seg = NoSeg
    /\ cafes = NoCafes
    /\ \E menus \in DisplayedLists, t \in Hours :
        opt = [ pc |-> "loop", menus |-> menus, utc_time |-> t, k |-> 1,
                options |-> <<>>, default_menu_id |-> NoMenuId ]

\* One iteration of `for menu in menus`: the option is appended first, then
\* the range is tested and the loop is left at the first menu that passes.
OptLoopStep ==
    /\ opt.pc = "loop"
    /\ opt.k <= Len(opt.menus)
    /\ LET menu == opt.menus[opt.k]
           range == menu.valid_time_range
           options == Append(opt.options, Option(menu))
       IN  IF HasKey(range, "start") /\ HasKey(range, "end") /\ InTimeRange(range, opt.utc_time)
           THEN opt' = [opt EXCEPT !.options = options,
                                   !.default_menu_id = menu.menu_id,
                                   !.pc = "returned"]
           ELSE opt' = [opt EXCEPT !.options = options, !.k = opt.k + 1]
    /\ UNCHANGED <<agent_registry, status, streams, seg, cafes>>

\* The loop ran out of menus (or there were none): the response is built.
OptLoopEnd ==
    /\ opt.pc = "loop"
    /\ opt.k > Len(opt.menus)
    /\ opt' = [opt EXCEPT !.pc = "returned"]
    /\ UNCHANGED <<agent_registry, status, streams, seg, cafes>>

menus_get_as_options_returns ==
    [ status  |-> IF Len(opt.menus) > 0 THEN "success" ELSE "warning",
      options |-> opt.options,
      default |-> opt.default_menu_id ]

OptNext == OptLoopStep \/ OptLoopEnd

OptSpec == OptInit /\ [][OptNext]_vars

\* ===================================================================
\* Properties
\* ===================================================================
IsTalk(i) == i \in StreamIds /\ streams[i].kind \in TalkKinds

\* The chunk the generator of kind `kind` yields for its k-th phrase.
ChunkOf(kind, k) == Frame(Synthesize(kind, k).meta, Synthesize(kind, k).audio)

\* ------------------------------------------------------------------ C1
\* C1: under fair scheduling every talk stream eventually ends, and at the
\* step by which it ends through exhaustion or through the break, the status
\* of the YakAgent it runs on is IDLE.
C1_StreamEndsIdle ==
    /\ \A i \in 1..MaxStreams : IsTalk(i) ~> (IsTalk(i) /\ streams[i].pc \in Ended)
    /\ [][\A i \in StreamIds :
            (streams[i].kind \in TalkKinds
             /\ streams[i].pc \notin Ended
             /\ streams'[i].pc \in {"exhausted", "break"})
            => ReadStatus(status', streams[i].yak) = IDLE]_vars

\* One talk stream was interrupted and left by the break, another ran out of
\* phrases after emitting chunks; both agents are IDLE.
C1_Witness ==
    \E i, j \in StreamIds :
        /\ IsTalk(i) /\ streams[i].pc = "break" /\ streams[i].iStart >= 0
        /\ IsTalk(j) /\ streams[j].pc = "exhausted" /\ Len(streams[j].emitted) >= 1
        /\ ReadStatus(status, streams[i].yak) = IDLE
        /\ ReadStatus(status, streams[j].yak) = IDLE

\* ------------------------------------------------------------------ C2
\* C2: once agent_interrupt has run for the session of a live talk stream,
\* the stream emits no chunk for a phrase whose synthesis had not started at
\* that time.  (Chunks come in phrase order, so this leaves at most the chunk
\* of the synthesis in flight, and exactly one chunk in total when exactly
\* one phrase had been taken.)
C2_InterruptStopsEmission ==
    \A i \in StreamIds :
        (streams[i].kind \in TalkKinds /\ streams[i].iStart >= 0) =>
            \A c \in 1..Len(streams[i].emitted) :
                streams[i].emitted[c].audio <= streams[i].iStart

\* ------------------------------------------------------------------ C3
\* C3: the loop checks the status before it synthesizes a phrase, the first
\* one included: when the status is not TALKING as the loop is about to take
\* a phrase, no synthesis of that phrase starts.
C3_CheckBeforeSynthesis ==
    [][\A i \in StreamIds :
          (streams[i].kind \in TalkKinds
           /\ streams[i].pc = "take"
           /\ ReadStatus(status, streams[i].yak) # TALKING)
          => streams'[i].pc # "synth"]_vars

\* ------------------------------------------------------------------ C4
\* C4: a TTS failure on a phrase does not abort the stream: the phrase is
\* skipped, and an uninterrupted stream that has ended has emitted one chunk
\* fewer than the phrases it took.
C4_SynthFailureSkipsPhrase ==
    \A i \in StreamIds :
        (streams[i].kind \in TalkKinds /\ streams[i].failedAt > 0) =>
            /\ streams[i].pc # "aborted"
            /\ (streams[i].pc \in Ended /\ streams[i].iStart = -1)
                  => Len(streams[i].emitted) = streams[i].pos - 1

\* ------------------------------------------------------------------ C5
\* C5: every exit of the talk loop, the abnormal ones included, resets the
\* status to IDLE: no YakAgent is TALKING without a live talk stream on it.
C5_NoSessionStrandedTalking ==
    \A a \in 1..Len(status) :
        status[a] = TALKING =>
            \E i \in StreamIds :
                streams[i].kind \in TalkKinds /\ streams[i].yak = a /\ streams[i].pc \in Live

\* ------------------------------------------------------------------ C6
\* A request of one of the seven endpoints that look the session up, for sid.
LookupCall(sid) ==
    \/ get_avatar_config(sid)
    \/ chat_with_agent(sid)
    \/ get_agent_to_say(sid)
    \/ get_last_response(sid)
    \/ talk_with_agent(sid)
    \/ talk_with_avatar(sid)
    \/ agent_interrupt(sid)

LookupReturns(sid) ==
    {get_avatar_config_returns(sid), chat_with_agent_returns(sid),
     get_agent_to_say_returns(sid), get_last_response_returns(sid),
     talk_with_agent_returns(sid), talk_with_avatar_returns(sid),
     agent_interrupt_returns(sid)}

UnknownIds == SessionIds \ DOMAIN agent_registry

\* C6: for a session id that is no key of agent_registry each of the seven
\* endpoints ends with an exception, and its request changes neither the
\* registry (no entry is created) nor any status nor any stream.
C6_UnknownSessionIsError ==
    [][/\ \A sid \in UnknownIds : LookupReturns(sid) \subseteq Errors
       /\ \A sid \in UnknownIds : LookupCall(sid) => UNCHANGED vars
       /\ \A sid \in SessionIds \ DOMAIN agent_registry' :
             LookupReturns(sid)' \subseteq Errors]_vars

\* An id is unknown while another session has an agent that is TALKING on a
\* live stream: there is state such a request could disturb.
C6_Witness ==
    /\ UnknownIds # {}
    /\ \E i \in StreamIds :
          /\ IsTalk(i) /\ streams[i].pc \in Live
          /\ ReadStatus(status, streams[i].yak) = TALKING
          /\ streams[i].sid \in DOMAIN agent_registry

\* ------------------------------------------------------------------ C7
ReservedIds == {sid \in DOMAIN agent_registry : agent_registry[sid] = NoneVal}

\* C7: a session id that was only reserved is rejected by the conversational
\* endpoints with the error of an unknown id, "No agent found" (RuntimeError).
C7_ReservedIsNotFound ==
    \A sid \in ReservedIds :
        {talk_with_agent_returns(sid), talk_with_avatar_returns(sid),
         chat_with_agent_returns(sid), get_agent_to_say_returns(sid),
         get_avatar_config_returns(sid)} = {RuntimeError}

\* ------------------------------------------------------------------ C8
CreatedIds == {sid \in DOMAIN agent_registry : agent_registry[sid] # NoneVal}

\* C8: agent_interrupt on a created session answers OK and leaves its agent
\* IDLE and every other agent and the registry as they were; on an agent that
\* is already IDLE it changes no status; and a second agent_interrupt right
\* after it would change nothing at all.
C8_InterruptIdempotent ==
    [][\A sid \in CreatedIds :
          agent_interrupt(sid) =>
              LET yak == agent_registry[sid] IN
              /\ agent_interrupt_returns(sid) = OK
              /\ ReadStatus(status', yak) = IDLE
              /\ \A a \in 1..Len(status) : a # yak => status'[a] = status[a]
              /\ Len(status') = Len(status)
              /\ agent_registry' = agent_registry
              /\ ReadStatus(status, yak) = IDLE => status' = status
              /\ InterruptStatus(status', agent_registry'[sid]) = status'
              /\ MarkInterrupt(streams', sid) = streams'
              /\ agent_interrupt_returns(sid)' = OK]_vars

\* agent_interrupt has run on a session with a live talk stream: the stream
\* has noted it and the agent is IDLE.
C8_Witness ==
    \E i \in StreamIds :
        /\ IsTalk(i) /\ streams[i].pc \in Live /\ streams[i].iStart >= 0
        /\ streams[i].sid \in CreatedIds
        /\ ReadStatus(status, streams[i].yak) = IDLE

\* ------------------------------------------------------------------ C9
\* C9: in every talk stream the phrases go to the TTS call in the order the
\* segmenter yields them, each once, and the chunks emitted are, in that
\* order, the chunks of the first phrases: nothing duplicated or reordered,
\* and at most the phrase in flight is not emitted yet.
C9_ChunksInPhraseOrder ==
    \A i \in StreamIds :
        streams[i].kind \in TalkKinds =>
            LET s == streams[i] IN
            /\ s.pos <= MaxPhrases
            /\ s.synthesized = [k \in 1..s.pos |-> k]
            /\ Len(s.emitted) <= s.pos
            /\ s.emitted = [k \in 1..Len(s.emitted) |-> ChunkOf(s.kind, k)]

\* A talk stream has emitted two chunks.
C9_Witness ==
    \E i \in StreamIds : IsTalk(i) /\ Len(streams[i].emitted) >= 2

\* ----------------------------------------------------------------- C10
\* A talk request for YakAgent a begins an utterance: its generator is
\* appended and has taken no phrase yet.
TalkBegins(a) ==
    /\ \E sid \in CreatedIds :
          agent_registry[sid] = a /\ (talk_with_agent(sid) \/ talk_with_avatar(sid))
    /\ Len(streams') = Len(streams) + 1
    /\ streams'[Len(streams')].yak = a
    /\ streams'[Len(streams')].pos = 0
    /\ streams'[Len(streams')].emitted = <<>>

\* The loop of a talk stream on YakAgent a ends in this step.
LoopEnds(a) ==
    \E i \in StreamIds :
        /\ streams[i].kind \in TalkKinds /\ streams[i].yak = a
        /\ streams[i].pc \in Live
        /\ streams'[i].pc \in {"exhausted", "break"}

Interrupts(a) ==
    \E sid \in CreatedIds : agent_registry[sid] = a /\ agent_interrupt(sid)

OpOn(sid) ==
    \/ \E path \in CreatePaths : agent_create(sid, path)
    \/ LookupCall(sid)
    \/ \E i \in StreamIds : streams[i].sid = sid /\ StreamStep(i)

\* The YakAgent objects of session sid: the one registered and those its
\* stream generators hold.
AgentsOf(sid) ==
    ((IF sid \in DOMAIN agent_registry THEN {agent_registry[sid]} ELSE {})
     \cup {streams[i].yak : i \in {j \in StreamIds : streams[j].sid = sid}})
    \ {NoneVal}

\* C11: an operation on session A leaves a distinct created session B as it
\* was: the entry of B, the status of each agent of B, and each stream of B
\* with its position and its chunks; and while a stream of A is inside its
\* synthesis call, a live stream of B can take its next step.
C11_SessionsIsolated ==
    [][/\ \A A \in SessionIds : \A B \in CreatedIds \ {A} :
             OpOn(A) =>
                /\ agent_registry'[B] = agent_registry[B]
                /\ \A a \in AgentsOf(B) : status'[a] = status[a]
                /\ \A j \in StreamIds :
                      streams[j].sid = B => streams'[j] = streams[j]
       /\ \A i, j \in StreamIds :
             (streams[i].sid # streams[j].sid
              /\ streams[i].pc = "synth" /\ streams[j].pc \in Live)
             => ENABLED (StreamStep(j) /\ UNCHANGED storeVars)]_vars

\* Session A was interrupted while its stream is inside a synthesis call;
\* meanwhile the stream of session B went on to its second chunk and B is
\* still TALKING.
C11_Witness ==
    \E i, j \in StreamIds :
        /\ IsTalk(i) /\ IsTalk(j) /\ streams[i].sid # streams[j].sid
        /\ streams[i].pc = "synth" /\ streams[i].iStart >= 0
        /\ ReadStatus(status, streams[i].yak) = IDLE
        /\ streams[j].pc = "yielded" /\ Len(streams[j].emitted) = 2
        /\ ReadStatus(status, streams[j].yak) = TALKING

\* ----------------------------------------------------------------- C12
\* C12: a talk stream stops before its phrase source is exhausted only
\* because agent_interrupt ran for its session while the stream was live: a
\* stream that left its loop by the break has noted an interrupt.  (Exits by
\* an exception are the matter of C4 and C5.)
C12_StopsOnlyWhenInterrupted ==
    \A i \in StreamIds :
        (streams[i].kind \in TalkKinds /\ streams[i].pc = "break")
        => streams[i].iStart >= 0

\* ----------------------------------------------------------------- C13
\* C13: an agent_interrupt that ran while a talk stream was live is observed
\* at the stream's next check: when the generator resumes after a yield with
\* an interrupt noted, it leaves the loop by the break, whatever requests
\* came in between.
C13_InterruptObservedAtNextCheck ==
    [][\A i \in StreamIds :
          (streams[i].kind \in TalkKinds
           /\ streams[i].pc = "yielded"
           /\ streams[i].iStart >= 0
           /\ streams'[i].pc # "yielded")
          => streams'[i].pc = "break"]_vars

\* ----------------------------------------------------------------- C14
\* C14: no step removes a key of agent_registry; a step adds at most one key;
\* agent_reservation enters an id that was no key before, with the
\* placeholder, and agent_create writes the one entry of its session id
\* (adding the key or replacing the value, never a second entry).
C14_RegistryKeysOnlyGrow ==
    [][/\ DOMAIN agent_registry \subseteq DOMAIN agent_registry'
       /\ Cardinality(DOMAIN agent_registry') <= Cardinality(DOMAIN agent_registry) + 1
       /\ \A sid \in SessionIds :
             (agent_reservation(sid) \/ agent_create(sid, "builds")) =>
                /\ DOMAIN agent_registry' = DOMAIN agent_registry \cup {sid}
                /\ \A k \in DOMAIN agent_registry \ {sid} :
                      agent_registry'[k] = agent_registry[k]
       /\ \A sid \in SessionIds :
             agent_reservation(sid) =>
                sid \notin DOMAIN agent_registry /\ agent_registry'[sid] = NoneVal]_vars

\* The registry holds a reserved id next to an id whose agent was created
\* twice: a stream still runs on the first agent, the entry holds the second.
C14_Witness ==
    \E sid \in CreatedIds, other \in ReservedIds, i \in StreamIds :
        /\ sid # other
        /\ streams[i].sid = sid /\ streams[i].pc \in Live
        /\ streams[i].yak # agent_registry[sid]

\* ----------------------------------------------------------------- C15
RECURSIVE Concat(_)
Concat(texts) == IF texts = <<>> THEN <<>> ELSE Head(texts) \o Concat(Tail(texts))

\* The fragments of frags the filter lets through, in order.
RECURSIVE Kept(_, _)
Kept(filter, frags) ==
    IF frags = <<>> THEN <<>>
    ELSE IF Excluded(filter, Head(frags)) THEN Kept(filter, Tail(frags))
    ELSE <<Head(frags)>> \o Kept(filter, Tail(frags))

\* C15: at every point of a segmenter run the phrases yielded so far,
\* concatenated and followed by the text still accumulated, are the
\* concatenation of the fragments consumed so far that the filter lets
\* through; whenever the consumer has control (a phrase is yielded, the loop
\* has stopped, the source is exhausted) nothing is held back, so the phrases
\* alone are that text; at exhaustion every fragment has been consumed; and in
\* the call of the talk endpoints, which pass no filter, the text is that of
\* all fragments consumed.
C15_SegmenterKeepsText ==
    seg.pc # "none" =>
        /\ Concat(seg.phrases) \o seg.buf = Concat(Kept(seg.filter, seg.taken))
        /\ seg.pc # "run" => seg.buf = <<>>
        /\ seg.pc = "done" => seg.source = <<>>
        /\ seg.caller = "talk" => Concat(seg.phrases) \o seg.buf = Concat(seg.taken)
        /\ seg.filter = NoFilter => Kept(seg.filter, seg.taken) = seg.taken

\* A talk run over three fragments, one of them a stage direction, is
\* exhausted after two phrases; its last phrase is the remainder.
C15_Witness ==
    /\ seg.pc = "done" /\ seg.caller = "talk"
    /\ Len(seg.taken) = 3 /\ Len(seg.phrases) = 2
    /\ \E k \in 1..3 : seg.taken[k] = <<"(", "x", ")">>
    /\ ~HasMarker(seg.taken[3])

\* ----------------------------------------------------------------- C16
HelloThereHowAreYou == Scenario[1] \o Scenario[2] \o Scenario[3]
IAmFine == Scenario[4]

\* C16: while the segmenter reads, the text it holds back has met no boundary
\* condition (it holds no terminal marker and fewer fragments than the
\* threshold): a phrase is closed by the first fragment that meets one; a
\* phrase yielded before the source ended holds a terminal marker or was
\* closed by the threshold; at exhaustion no remainder is left (a non-empty
\* one went out as the last phrase); and the scenario's four fragments,
\* with the threshold out of reach, give exactly the two phrases and the loop
\* emits exactly their two chunks, in that order.
C16_SegmenterBoundaries ==
    seg.pc # "none" =>
        /\ ~HasMarker(seg.buf)
        /\ seg.n < seg.threshold
        /\ seg.pc = "done" => seg.buf = <<>> /\ seg.source = <<>>
        /\ \A k \in 1..Len(seg.phrases) :
              k < Len(seg.phrases) \/ seg.source # <<>> =>
                  \/ HasMarker(seg.phrases[k])
                  \/ Len(seg.taken) >= seg.threshold
        /\ (seg.taken \o seg.source = Scenario /\ seg.threshold > Len(Scenario)
            /\ seg.pc = "done")
           => /\ seg.phrases = <<HelloThereHowAreYou, IAmFine>>
              /\ seg.chunks = <<ChunkOf("agent", HelloThereHowAreYou),
                                ChunkOf("agent", IAmFine)>>

\* The scenario has run to exhaustion under the talk call.
C16_Witness ==
    /\ seg.pc = "done" /\ seg.caller = "talk"
    /\ seg.taken = Scenario /\ seg.threshold > Len(Scenario)
    /\ Len(seg.chunks) = 2

\* ----------------------------------------------------------------- C17
\* The number of phrases of stream record s whose TTS call has returned.
Returned(s) ==
    IF s.pc = "synth" \/ (s.pc = "aborted" /\ s.failedAt > 0) THEN s.pos - 1 ELSE s.pos

\* C17: a talk stream has emitted one chunk for each phrase whose TTS call
\* has returned, and its c-th chunk holds the metadata and the audio of the
\* c-th phrase handed to the TTS call: the phrase itself in talk_with_agent,
\* the visemes in talk_with_avatar, and both blocks belong to the same
\* phrase.
C17_ChunkPairsOwnPhrase ==
    \A i \in StreamIds :
        streams[i].kind \in TalkKinds =>
            LET s == streams[i] IN
            /\ Len(s.emitted) = Returned(s)
            /\ \A c \in 1..Len(s.emitted) :
                  LET k == s.synthesized[c] IN
                  /\ s.emitted[c].audio = Synthesize(s.kind, k).audio
                  /\ s.emitted[c].meta = Synthesize(s.kind, k).meta
                  /\ s.emitted[c].meta[1] =
                        (IF s.kind = "agent" THEN "phrase" ELSE "visemes")
                  /\ s.emitted[c].meta[2] = s.emitted[c].audio

\* A talk_with_avatar stream has emitted both its chunks while a
\* talk_with_agent stream is inside the TTS call of its second phrase.
C17_Witness ==
    \E i, j \in StreamIds :
        /\ streams[i].kind = "avatar" /\ Len(streams[i].emitted) = 2
        /\ streams[j].kind = "agent" /\ streams[j].pc = "synth"
        /\ Len(streams[j].emitted) = 1 /\ streams[j].pos = 2

\* ----------------------------------------------------------------- C18
\* The menus of group g of business b, in list order.
GroupOf(db, b, g) ==
    Filter(db[b].menus,
           {k \in 1..Len(db[b].menus) : db[b].menus[k].collection.grp_id = g})

\* The position in list of the first menu with the id.
PositionOf(list, id) == Least({k \in 1..Len(list) : list[k].menu_id = id})

\* C18: for a group of more than one menu with one primary menu (the one
\* whose sequence_number is 0), collate_text returns the number of menus of
\* the group and the primary menu's id, and leaves as the primary menu's text
\* the texts of all menus of the group, joined in ascending sequence_number
\* order.
C18_CollatesWholeGroup ==
    \A b \in DOMAIN cafes, g \in GroupIds :
        LET group == GroupOf(cafes, b, g)
            primaries == {k \in 1..Len(group) : group[k].collection.sequence_number = 0}
        IN (Len(group) > 1 /\ Cardinality(primaries) = 1) =>
              LET primary == group[Least(primaries)].menu_id
                  r == collate_text_returns(cafes, b, g)
                  after == collate_text(cafes, b, g)[b].menus
              IN /\ r.ok
                 /\ r.count = Len(group)
                 /\ r.primary_menu_id = primary
                 /\ after[PositionOf(after, primary)].menu_text =
                       JoinText(SortedBySequence(group))

\* ----------------------------------------------------------------- C19
\* C19: in every state of the collection and for every submitted Cafe,
\* upsert_cafe_settings as cafe_save_settings calls it leaves under the
\* business_uid: for an existing cafe, the submitted value in every field but
\* menus and the stored menus; for no cafe, the submitted cafe as given; and
\* the documents of the other businesses as they were.
C19_SettingsKeepMenus ==
    \A settings \in SubmittedCafes :
        LET b == settings.business_uid
            after == upsert_cafe_settings(cafes, b, settings, SkipFields)
        IN /\ DOMAIN after = DOMAIN cafes \cup {b}
           /\ \A other \in DOMAIN cafes \ {b} : after[other] = cafes[other]
           /\ IF b \in DOMAIN cafes
              THEN /\ after[b].business_uid = settings.business_uid
                   /\ after[b].name = settings.name
                   /\ after[b].menus = cafes[b].menus
              ELSE after[b] = settings

\* Settings were saved over a cafe made by an upload: the cafe has a
\* submitted name and still holds its uploaded menu, with its OCR text.
C19_Witness ==
    \E b \in DOMAIN cafes :
        /\ cafes[b].name \in Names
        /\ Len(cafes[b].menus) = 2
        /\ \A k \in 1..2 : cafes[b].menus[k].collection.grp_id \in GroupIds
        /\ cafes[b].menus[1].menu_text \in Texts

\* ----------------------------------------------------------------- C20
\* C20: in every state of the collection and for every submitted menu,
\* update_menu leaves the cafe with as many menus as before, in the same
\* order and with the same ids; a menu with another id is as it was; in a
\* menu with the submitted id each field the submitted menu has holds the
\* submitted value and each field it lacks holds the stored value; and the
\* other cafes are as they were.
C20_UpdateOnlyThatMenu ==
    \A b \in BusinessIds, upd \in SubmittedMenus :
        LET after == update_menu(cafes, b, upd) IN
        /\ DOMAIN after = DOMAIN cafes
        /\ \A other \in DOMAIN cafes \ {b} : after[other] = cafes[other]
        /\ b \in DOMAIN cafes =>
              /\ after[b].name = cafes[b].name
              /\ Len(after[b].menus) = Len(cafes[b].menus)
              /\ \A k \in 1..Len(cafes[b].menus) :
                    LET stored == cafes[b].menus[k]
                        now == after[b].menus[k]
                    IN IF stored.menu_id # upd.menu.menu_id
                       THEN now = stored
                       ELSE /\ now.menu_id = stored.menu_id
                            /\ now.menu_text =
                                  (IF "menu_text" \in upd.keys
                                   THEN upd.menu.menu_text ELSE stored.menu_text)
                            /\ now.collection =
                                  (IF "collection" \in upd.keys
                                   THEN upd.menu.collection ELSE stored.collection)

\* A cafe of three menus whose second menu was updated out of its collection
\* and kept its text, while its neighbours are still in theirs.
C20_Witness ==
    \E b \in DOMAIN cafes :
        /\ Len(cafes[b].menus) = 3
        /\ cafes[b].menus[2].collection = NoCollection
        /\ cafes[b].menus[2].menu_text \in Texts
        /\ cafes[b].menus[1].collection.grp_id \in GroupIds
        /\ cafes[b].menus[3].collection.grp_id \in GroupIds

\* ------------------------------------------------------------------ C21
\* What "valid_time_range contains the time of day t" means: between start
\* and end for a range within one date, after start or before end for a
\* range that straddles two days.
Contains(range, t) ==
    IF range.start.date = range.end.date
    THEN range.start.time <= t /\ t <= range.end.time
    ELSE t >= range.start.time \/ t <= range.end.time

Qualifying(menus, t) ==
    { k \in 1..Len(menus) :
        /\ HasKey(menus[k].valid_time_range, "start")
        /\ HasKey(menus[k].valid_time_range, "end")
        /\ Contains(menus[k].valid_time_range, t) }

\* C21: the default menus_get_as_options returns is the id of the first
\* menu, in list order, whose valid_time_range contains the requested time
\* of day, and the empty id when no menu qualifies.
C21_DefaultIsFirstValidMenu ==
    opt.pc = "returned" =>
        menus_get_as_options_returns.default =
            IF Qualifying(opt.menus, opt.utc_time) = {}
            THEN NoMenuId
            ELSE opt.menus[Least(Qualifying(opt.menus, opt.utc_time))].menu_id

\* ------------------------------------------------------------------ C22
\* C22: the options menus_get_as_options returns hold one label/value entry
\* for every displayable menu, in list order, whichever menu is the default.
C22_OptionsListEveryMenu ==
    opt.pc = "returned" =>
        menus_get_as_options_returns.options =
            [k \in 1..Len(opt.menus) |-> Option(opt.menus[k])]

\* ------------------------------------------------------------------ C23
\* The step stored a newly built agent under sid: the entry of sid holds an
\* agent object that did not exist before, with the status of a new agent.
StoredNewAgent(sid) ==
    /\ sid \in DOMAIN agent_registry'
    /\ agent_registry'[sid] = Len(status) + 1
    /\ status' = Append(status, NewYakAgentStatus)

\* C23: agent_create answers 'success' exactly when it stored a newly built
\* agent under config.session_id; when it answers 'error' the registry is
\* left as it was, so an agent registered under that id is kept; and an
\* agent appears under an id only by a successful agent_create.
C23_CreateStoresIffSuccess ==
    [][\A sid \in SessionIds :
          /\ \A path \in CreatePaths :
                agent_create(sid, path) =>
                   /\ agent_create_returns(sid, path) \in {OK, StatusError}
                   /\ agent_create_returns(sid, path) = OK => StoredNewAgent(sid)
                   /\ agent_create_returns(sid, path) = StatusError =>
                         /\ agent_registry' = agent_registry
                         /\ status' = status
          /\ ( /\ sid \in DOMAIN agent_registry'
               /\ agent_registry'[sid] # NoneVal
               /\ (sid \in DOMAIN agent_registry => agent_registry'[sid] # agent_registry[sid]) )
             => \E path \in CreatePaths :
                   /\ agent_create(sid, path)
                   /\ agent_create_returns(sid, path) = OK]_vars

\* An agent is registered under an id for which a failing agent_create can
\* run: the registry is full of agents, so one was built for the id after
\* another agent_create had built one.
C23_Witness ==
    \E sid \in CreatedIds :
        /\ agent_registry[sid] = MaxAgents
        /\ \A path \in CreatePaths \ {"builds"} :
              agent_create_returns(sid, path) = StatusError

\* ------------------------------------------------------------------ C24
IsSay(i) == i \in StreamIds /\ streams[i].kind = "say"

\* C24: a get_agent_to_say stream hands the whole message to one TTS call
\* and emits exactly one chunk, the chunk of that call (none before the call
\* returns, none when the call raises); it never ends by the break of the
\* talk loops.  Neither the request nor a step of its generator changes a
\* playback status, and agent_interrupt leaves the stream's position and
\* chunk as they are.
C24_SayEmitsOneChunkStatusUntouched ==
    [][/\ \A i \in StreamIds :
             IsSay(i) =>
                LET s == streams[i] IN
                /\ s.pc \in {"take", "synth", "yielded", "returned", "aborted"}
                /\ s.pc = "take" => s.emitted = <<>> /\ s.synthesized = <<>>
                /\ s.pc # "take" => s.synthesized = <<1>>
                /\ s.pc = "synth" => s.emitted = <<>>
                /\ s.pc = "aborted" => s.emitted = <<>> /\ s.failedAt = 1
                /\ s.pc \in {"yielded", "returned"} =>
                      s.emitted = <<ChunkOf("say", 1)>>
                /\ StreamStep(i) => status' = status
                /\ \A sid \in SessionIds :
                      agent_interrupt(sid) =>
                         /\ streams'[i].pc = s.pc
                         /\ streams'[i].emitted = s.emitted
       /\ \A sid \in SessionIds : get_agent_to_say(sid) => status' = status]_vars

\* A get_agent_to_say stream has returned with its chunk although
\* agent_interrupt ran for its session before the TTS call was made, and the
\* agent is TALKING (a talk stream of the same agent plays on).
C24_Witness ==
    \E i \in StreamIds :
        /\ IsSay(i)
        /\ streams[i].pc = "returned"
        /\ streams[i].iStart = 0
        /\ Len(streams[i].emitted) = 1
        /\ ReadStatus(status, streams[i].yak) = TALKING

\* ------------------------------------------------------------------ C25
\* The displayable menus of business b that belong to group g.
DisplayableOf(db, b, g) ==
    LET shown == get_menu_list(db, b, TRUE)
    IN {k \in 1..Len(shown) : shown[k].collection.grp_id = g}

====
